---------------------------- MODULE Spec2Model ----------------------------
(***************************************************************************)
(* Phishing Detector browser extension: the background service worker      *)
(* (src/build/background.js) and the popup controller                      *)
(* (src/unnamed/part_004, the popup.js of the build).                      *)
(*                                                                         *)
(* Strings are TLA+ strings; TLC evaluates Len, SubSeq and \o on them, so  *)
(* String.includes, endsWith, toLowerCase, replace and RegExp.test are     *)
(* computed character by character as the JavaScript does.                 *)
(***************************************************************************)
EXTENDS Integers, Sequences, FiniteSets, TLC

(***************************************************************************)
(* JavaScript string primitives                                            *)
(***************************************************************************)

\* The i-th character of s (1-based), as a string of length 1.
CharAt(s, i) == SubSeq(s, i, i)

\* String.prototype.includes
Includes(s, sub) ==
    \E i \in 1..(Len(s) - Len(sub) + 1) : SubSeq(s, i, i + Len(sub) - 1) = sub

\* String.prototype.endsWith
EndsWith(s, suffix) ==
    /\ Len(suffix) <= Len(s)
    /\ SubSeq(s, Len(s) - Len(suffix) + 1, Len(s)) = suffix

\* String.prototype.indexOf, 1-based; 0 when sub does not occur.
IndexOf(s, sub) ==
    LET hits == {i \in 1..(Len(s) - Len(sub) + 1) : SubSeq(s, i, i + Len(sub) - 1) = sub}
    IN  IF hits = {} THEN 0 ELSE CHOOSE i \in hits : \A j \in hits : i <= j

UpperCase == <<"A","B","C","D","E","F","G","H","I","J","K","L","M",
               "N","O","P","Q","R","S","T","U","V","W","X","Y","Z">>
LowerCase == <<"a","b","c","d","e","f","g","h","i","j","k","l","m",
               "n","o","p","q","r","s","t","u","v","w","x","y","z">>
Digits    == {"0","1","2","3","4","5","6","7","8","9"}

LowerChar(c) ==
    IF \E k \in 1..Len(UpperCase) : UpperCase[k] = c
    THEN LowerCase[CHOOSE k \in 1..Len(UpperCase) : UpperCase[k] = c]
    ELSE c

\* String.prototype.toLowerCase
RECURSIVE ToLowerFrom(_, _)
ToLowerFrom(s, i) ==
    IF i > Len(s) THEN "" ELSE LowerChar(CharAt(s, i)) \o ToLowerFrom(s, i + 1)

ToLowerCase(s) == ToLowerFrom(s, 1)

\* s.replace(new RegExp(c, 'g'), r) for a one-character pattern c
RECURSIVE ReplaceFrom(_, _, _, _)
ReplaceFrom(s, c, r, i) ==
    IF i > Len(s) THEN ""
    ELSE (IF CharAt(s, i) = c THEN r ELSE CharAt(s, i)) \o ReplaceFrom(s, c, r, i + 1)

ReplaceAll(s, c, r) == ReplaceFrom(s, c, r, 1)

\* s.split(sep).length for a one-character separator
SplitLength(s, sep) == Cardinality({i \in 1..Len(s) : CharAt(s, i) = sep}) + 1

\* /\d/.test(s) and /[a-z]/.test(s)
HasDigit(s)  == \E i \in 1..Len(s) : CharAt(s, i) \in Digits
HasLetter(s) == \E i \in 1..Len(s) : \E k \in 1..Len(LowerCase) : LowerCase[k] = CharAt(s, i)

\* RegExp /w1.*w2.*...wn/.test(s): the words occur in this order without
\* overlapping (the input holds no line terminator, so .* spans anything).
RECURSIVE RegexWordsTest(_, _)
RegexWordsTest(s, words) ==
    IF words = <<>> THEN TRUE
    ELSE LET w == Head(words)
             i == IndexOf(s, w)
         IN  /\ i # 0
             /\ RegexWordsTest(SubSeq(s, i + Len(w), Len(s)), Tail(words))

(***************************************************************************)
(* PhishingDetector: static data                                           *)
(***************************************************************************)

whitelistedDomains ==
    {"google.com", "facebook.com", "microsoft.com", "apple.com",
     "amazon.com", "github.com", "stackoverflow.com", "wikipedia.org"}

\* Each /a.*b.*c/i pattern as its words in order.
phishingPatterns ==
    << <<"secure", "verify">>,
       <<"account", "suspended">>,
       <<"click", "here", "immediately">>,
       <<"urgent", "action", "required">>,
       <<"verify", "identity">>,
       <<"update", "payment">>,
       <<"suspicious", "activity">>,
       <<"limited", "time">> >>

suspiciousTlds == {".tk", ".ml", ".ga", ".cf", ".gq"}

shorteners == {"bit.ly", "tinyurl.com", "t.co", "goo.gl", "ow.ly"}

popularBrands ==
    <<"paypal", "amazon", "google", "facebook", "microsoft",
      "apple", "netflix", "instagram", "twitter", "linkedin",
      "ebay", "walmart", "target", "chase", "wellsfargo">>

paypalVariants ==
    <<"paypa1", "paypaI", "payp4l", "p4ypal", "payp@l", "paypai",
      "papyal", "payapl", "paipal", "paypal1", "paypal-">>

substitutions ==
    << [original |-> "o", fake |-> "0"],
       [original |-> "l", fake |-> "1"],
       [original |-> "l", fake |-> "I"],
       [original |-> "a", fake |-> "@"],
       [original |-> "a", fake |-> "4"],
       [original |-> "e", fake |-> "3"],
       [original |-> "s", fake |-> "5"],
       [original |-> "g", fake |-> "9"] >>

substitutionBrands == <<"paypal", "amazon", "google", "facebook", "microsoft", "apple">>

\* Stand-ins for the characters of /[a-ya]|[alpha-omega]/ (U+0430..U+044F and
\* U+03B1..U+03C9): module text is ASCII.  The URL parser serialises a host
\* with such characters as punycode, so no parsed hostname contains them.
homographChars == {"~", "^"}

(***************************************************************************)
(* PhishingDetector: scoring                                               *)
(***************************************************************************)

detectHomograph(domain) ==
    \E i \in 1..Len(domain) : CharAt(domain, i) \in homographChars

detectPayPalImpersonation(domain) ==
    \E k \in 1..Len(paypalVariants) : Includes(domain, paypalVariants[k])

detectCharacterSubstitution(domain) ==
    \E b \in 1..Len(substitutionBrands) : \E k \in 1..Len(substitutions) :
        LET brand     == substitutionBrands[b]
            fakeBrand == ReplaceAll(brand, substitutions[k].original, substitutions[k].fake)
        IN  Includes(domain, fakeBrand) /\ fakeBrand # brand

\* The first loop of checkBrandImpersonation: some popular brand occurs in the
\* domain, which ends with neither <brand>.com nor <brand>.org.
BrandInSuspiciousContext(domain) ==
    \E k \in 1..Len(popularBrands) :
        LET brand == popularBrands[k]
        IN  /\ Includes(domain, brand)
            /\ ~EndsWith(domain, brand \o ".com")
            /\ ~EndsWith(domain, brand \o ".org")

\* checkBrandImpersonation with the look-alike tests before the brand test.
checkBrandImpersonationStrongestFirst(domain) ==
    IF detectPayPalImpersonation(domain) THEN 80
    ELSE IF detectCharacterSubstitution(domain) THEN 60
    ELSE IF BrandInSuspiciousContext(domain) THEN 50
    ELSE 0

checkBrandImpersonation(domain) ==
    IF BrandInSuspiciousContext(domain) THEN 50
    ELSE IF detectPayPalImpersonation(domain) THEN 80
    ELSE IF detectCharacterSubstitution(domain) THEN 60
    ELSE 0

analyzeDomain(domain) ==
      (IF \E tld \in suspiciousTlds : EndsWith(domain, tld) THEN 30 ELSE 0)
    + (IF Len(domain) > 30 THEN 15 ELSE 0)
    + (IF SplitLength(domain, ".") - 2 > 3 THEN 20 ELSE 0)
    + (IF HasDigit(domain) /\ HasLetter(domain) THEN 10 ELSE 0)
    + (IF detectHomograph(domain) THEN 40 ELSE 0)
    + checkBrandImpersonation(domain)

securityKeywords == <<"login", "secure", "account", "bank", "paypal", "paypa">>

analyzeUrlStructure(urlObj) ==
      (IF /\ urlObj.protocol = "http:"
          /\ \E k \in 1..Len(securityKeywords) : Includes(urlObj.hostname, securityKeywords[k])
       THEN 40 ELSE 0)
    + (IF urlObj.hostname \in shorteners THEN 25 ELSE 0)
    + (IF Includes(urlObj.pathname, "..") THEN 30 ELSE 0)
    + (IF Len(urlObj.href) > 100 THEN 10 ELSE 0)
    + (IF Includes(urlObj.search, "redirect") \/ Includes(urlObj.search, "url=") THEN 15 ELSE 0)

RECURSIVE PatternSum(_, _)
PatternSum(url, k) ==
    IF k > Len(phishingPatterns) THEN 0
    ELSE (IF RegexWordsTest(ToLowerCase(url), phishingPatterns[k]) THEN 20 ELSE 0)
         + PatternSum(url, k + 1)

\* analyzePatterns returning at the first pattern that matches.
analyzePatternsFirstMatch(url) ==
    IF \E k \in 1..Len(phishingPatterns) :
           RegexWordsTest(ToLowerCase(url), phishingPatterns[k])
    THEN 20 ELSE 0

analyzePatterns(url) == PatternSum(url, 1)

Min(a, b) == IF a <= b THEN a ELSE b

(***************************************************************************)
(* new URL(url): the parts of the parsed URL the program reads             *)
(***************************************************************************)

\* Index of the first "/" or "?" of s, or Len(s) + 1.
AuthorityEnd(s) ==
    LET stops == {i \in 1..Len(s) : CharAt(s, i) \in {"/", "?"}}
    IN  IF stops = {} THEN Len(s) + 1 ELSE CHOOSE i \in stops : \A j \in stops : i <= j

\* new URL(url) throws a TypeError for a string with no scheme or no host.
ValidURL(url) ==
    LET i == IndexOf(url, "://")
    IN  /\ i > 1
        /\ AuthorityEnd(SubSeq(url, i + 3, Len(url))) > 1

\* The URL object of a valid url (scheme and host are lowercased, an empty
\* path is "/"; the inputs hold no dot segments and no fragment).
ParseURL(url) ==
    LET i        == IndexOf(url, "://")
        scheme   == ToLowerCase(SubSeq(url, 1, i - 1))
        rest     == SubSeq(url, i + 3, Len(url))
        e        == AuthorityEnd(rest)
        host     == ToLowerCase(SubSeq(rest, 1, e - 1))
        tail     == SubSeq(rest, e, Len(rest))
        q        == IndexOf(tail, "?")
        rawPath  == IF q = 0 THEN tail ELSE SubSeq(tail, 1, q - 1)
        path     == IF rawPath = "" THEN "/" ELSE rawPath
        rawQuery == IF q = 0 THEN "" ELSE SubSeq(tail, q, Len(tail))
        query    == IF rawQuery = "?" THEN "" ELSE rawQuery
    IN  [protocol |-> scheme \o ":",
         hostname |-> host,
         pathname |-> path,
         search   |-> query,
         href     |-> scheme \o "://" \o host \o path \o query]

(***************************************************************************)
(* Bounds and inputs of the model                                          *)
(***************************************************************************)

MaxAnalyses == 2    \* calls of analyzeUrl in one behaviour
MaxReports  == 1    \* reportPhishing messages in one behaviour
MaxInserts  == 2    \* nodes a page script inserts after the initial load
MaxSubmits  == 1    \* submit events of forms that stay in the document

\* The tab identifiers.
Tabs == {1, 2}

\* The URLs the browser navigates to.
Urls ==
    {"https://google.com/secure-verify-identity?redirect=1",  \* whitelisted host
     "https://amazon-paypa1.com/",                            \* score 60
     "https://Amazon-Verification.net/Secure-Verify",         \* score 70
     "http://"}                                               \* new URL throws

\* Further URLs the scoring functions are evaluated on.
ScoreUrls ==
    {"https://example.org/",
     "https://x.tk/",
     "https://x.tk/secure-verify",
     "https://paypa1.com/",
     "https://PayPa1.com/Login",
     "http://paypa1-secure-login.tk/verify",
     "https://www.google.com/search?q=test",
     "https://bit.ly/a?url=x",
     "http://secure-login.a1.b.c.d.account-verify.example.ml/a..b/Verify-Identity?redirect=1"}

\* The hostnames documented as high-risk patterns that should be blocked:
\* brand impersonation and suspicious TLDs.
DocumentedHighRiskHosts ==
    {"paypal-security.com", "amazon-verification.net", "google-accounts.info",
     "example.tk", "test.ml", "suspicious.ga"}

\* The documented high-risk hostnames served over http and over https.
DocumentedUrl(scheme, host) == scheme \o "://" \o host \o "/"

DocumentedHighRiskUrls ==
    {DocumentedUrl(scheme, host) :
        scheme \in {"http", "https"}, host \in DocumentedHighRiskHosts}

\* URLs for the rules of checkBrandImpersonation: a leetspeak brand, and a
\* brand's own domain.
BrandUrls == {"https://amaz0n.com/", "https://paypal.com/"}

AllUrls == Urls \cup ScoreUrls \cup DocumentedHighRiskUrls \cup BrandUrls

\* suspiciousDomains lists an earlier session can have persisted.
PersistedAtStart == {<<>>, << <<"amazon-paypa1.com">> >>}

\* The URL whose analysis is decided for every score.
DecisionUrl == "https://example.org/"

(***************************************************************************)
(* JavaScript values                                                       *)
(***************************************************************************)

\* An optional value: <<>> is undefined / null, <<v>> is the value v.
None      == <<>>
Some(v)   == <<v>>
IsSome(o) == o # <<>>
Val(o)    == o[1]

\* A JavaScript Set of strings is the sequence of its members in insertion
\* order, without duplicates.
SetHas(set, x) == \E k \in 1..Len(set) : set[k] = x
SetAdd(set, x) == IF SetHas(set, x) THEN set ELSE Append(set, x)
Members(set)   == {set[k] : k \in 1..Len(set)}

\* Array.from(set) that misses the first member.
ArrayFromDropFirst(set) == IF set = <<>> THEN <<>> ELSE Tail(set)

\* Array.from(set)
ArrayFrom(set) == set

\* new Set(array): the first occurrence of each element, in order.
RECURSIVE NewSetFrom(_, _, _)
NewSetFrom(array, k, acc) ==
    IF k > Len(array) THEN acc ELSE NewSetFrom(array, k + 1, SetAdd(acc, array[k]))

NewSet(array) == NewSetFrom(array, 1, <<>>)

\* saveSuspiciousDomains: the value it stores under suspiciousDomains.
Saved(set) == Some(ArrayFrom(set))

\* loadSuspiciousDomains: the in-memory set after its continuation, from the
\* suspiciousDomains value read and the current set.
Loaded(result, current) == IF IsSome(result) THEN NewSet(Val(result)) ELSE current

\* result.stats || { sitesBlocked: 0, threatsDetected: 0, alertsShown: 0 }
\* (a counter missing from a stored record reads as 0 through "|| 0").
ZeroStats == [sitesBlocked |-> 0, threatsDetected |-> 0, alertsShown |-> 0]
StatsOr(o) == IF IsSome(o) THEN Val(o) ELSE ZeroStats

(***************************************************************************)
(* The parsed URLs and their sub-scores                                    *)
(***************************************************************************)

\* new URL(url) for every URL of the model.
urlObjects == [url \in {u \in AllUrls : ValidURL(u)} |-> ParseURL(url)]

\* The lowercased hostname and the three sub-scores calculateRiskScore
\* computes for a URL object, for every URL of the model, by href.
Analysed ==
    [href \in {urlObjects[u].href : u \in DOMAIN urlObjects} |->
        LET urlObj == urlObjects[CHOOSE u \in DOMAIN urlObjects : urlObjects[u].href = href]
            domain == ToLowerCase(urlObj.hostname)
        IN  [domain       |-> domain,
             domainScore  |-> analyzeDomain(domain),
             urlScore     |-> analyzeUrlStructure(urlObj),
             patternScore |-> analyzePatterns(ToLowerCase(urlObj.href))]]

(***************************************************************************)
(* The signals of a URL                                                    *)
(***************************************************************************)

Signal(kind, what) == [kind |-> kind, what |-> what]

\* The brand names substituted as detectCharacterSubstitution substitutes
\* them, without those a substitution leaves unchanged.
fakeBrands ==
    {g \in {ReplaceAll(substitutionBrands[b], substitutions[k].original,
                       substitutions[k].fake) :
               b \in 1..Len(substitutionBrands), k \in 1..Len(substitutions)} :
        \A b \in 1..Len(substitutionBrands) : g # substitutionBrands[b]}

\* The tests of analyzeDomain, analyzeUrlStructure and analyzePatterns that
\* are true of a URL: one signal for every test, and one for every popular
\* brand, PayPal variant and substituted brand name found in the hostname and
\* for every pattern that matches.
SignalsOf(urlObj) ==
    LET domain == ToLowerCase(urlObj.hostname)
        url    == ToLowerCase(urlObj.href)
    IN  {Signal("tld", tld) : tld \in {t \in suspiciousTlds : EndsWith(domain, t)}}
        \cup (IF Len(domain) > 30 THEN {Signal("domain", "long")} ELSE {})
        \cup (IF SplitLength(domain, ".") - 2 > 3 THEN {Signal("domain", "subdomains")} ELSE {})
        \cup (IF HasDigit(domain) /\ HasLetter(domain) THEN {Signal("domain", "mixed")} ELSE {})
        \cup (IF detectHomograph(domain) THEN {Signal("domain", "homograph")} ELSE {})
        \cup {Signal("brand", popularBrands[k]) : k \in
                 {j \in 1..Len(popularBrands) :
                     /\ Includes(domain, popularBrands[j])
                     /\ ~EndsWith(domain, popularBrands[j] \o ".com")
                     /\ ~EndsWith(domain, popularBrands[j] \o ".org")}}
        \cup {Signal("variant", paypalVariants[k]) : k \in
                 {j \in 1..Len(paypalVariants) : Includes(domain, paypalVariants[j])}}
        \cup {Signal("substitution", g) : g \in {f \in fakeBrands : Includes(domain, f)}}
        \cup (IF /\ urlObj.protocol = "http:"
                 /\ \E k \in 1..Len(securityKeywords) :
                       Includes(urlObj.hostname, securityKeywords[k])
              THEN {Signal("url", "http")} ELSE {})
        \cup (IF urlObj.hostname \in shorteners THEN {Signal("url", "shortener")} ELSE {})
        \cup (IF Includes(urlObj.pathname, "..") THEN {Signal("url", "dots")} ELSE {})
        \cup (IF Len(urlObj.href) > 100 THEN {Signal("url", "long")} ELSE {})
        \cup (IF Includes(urlObj.search, "redirect") \/ Includes(urlObj.search, "url=")
              THEN {Signal("url", "redirect")} ELSE {})
        \cup {Signal("pattern", ToString(k)) : k \in
                 {j \in 1..Len(phishingPatterns) : RegexWordsTest(url, phishingPatterns[j])}}

\* The signals of every URL of the model, evaluated once.
signals == [url \in DOMAIN urlObjects |-> SignalsOf(urlObjects[url])]

\* The signals calculateRiskScore adds up for a URL: those of the URL and the
\* membership of its hostname in the suspicious set.
Triggered(url, suspicious) ==
    signals[url] \cup (IF SetHas(suspicious, Analysed[urlObjects[url].href].domain)
                       THEN {Signal("reputation", "suspicious")} ELSE {})

(***************************************************************************)
(* State                                                                   *)
(***************************************************************************)

(***************************************************************************)
(* PageAnalyzer (content script): static data and pure checks              *)
(***************************************************************************)

\* String.prototype.trim, for the space character.
RECURSIVE Trim(_)
Trim(s) ==
    IF s = "" THEN s
    ELSE IF CharAt(s, 1) = " " THEN Trim(SubSeq(s, 2, Len(s)))
    ELSE IF CharAt(s, Len(s)) = " " THEN Trim(SubSeq(s, 1, Len(s) - 1))
    ELSE s

\* Array.prototype.join(' ')
RECURSIVE JoinWithSpace(_)
JoinWithSpace(strings) ==
    IF strings = <<>> THEN ""
    ELSE IF Len(strings) = 1 THEN strings[1]
    ELSE strings[1] \o " " \o JoinWithSpace(Tail(strings))

phishingKeywords ==
    <<"verify your account", "suspended account", "click here immediately",
      "urgent action required", "limited time offer",
      "congratulations you have won", "update payment information",
      "suspicious activity detected">>

\* The shorteners of isSuspiciousLink.
linkShorteners == {"bit.ly", "tinyurl.com", "t.co", "goo.gl", "ow.ly"}

\* The "domains" of isMisleadingLink.
linkBrands == <<"paypal", "amazon", "google", "facebook", "microsoft", "apple">>

\* The nodes a document of the model can hold under its body, none nested in
\* another and none an img: links, a form with a password field, a div
\* without descendants and a text node.
ElementIds == {"a1", "a2", "a3", "f1", "d1", "t1"}

NoElement == [tagName |-> "", textContent |-> "", href |-> "",
              password |-> FALSE, email |-> FALSE, card |-> FALSE,
              action |-> "", containsFormOrLink |-> FALSE]

Element(id) ==
    CASE id = "a1" -> [NoElement EXCEPT !.tagName = "A",
                           !.textContent = " PayPal Login ",
                           !.href = "https://evil.example/PayPal/login"]
      [] id = "a2" -> [NoElement EXCEPT !.tagName = "A",
                           !.textContent = "Sign in to PayPal",
                           !.href = "https://bit.ly/x"]
      [] id = "a3" -> [NoElement EXCEPT !.tagName = "A",
                           !.textContent = "Read more",
                           !.href = "https://example.org/news"]
      [] id = "f1" -> [NoElement EXCEPT !.tagName = "FORM",
                           !.password = TRUE,
                           !.action = "https://secure-verify.example/post"]
      [] id = "d1" -> [NoElement EXCEPT !.tagName = "DIV"]
      [] OTHER     -> [NoElement EXCEPT !.tagName = "#text",
                           !.textContent = "Please Verify your account now"]

\* HTMLAnchorElement.href: the serialised URL, or the attribute as written
\* when it does not parse.
LinkHref(href) == IF ValidURL(href) THEN ParseURL(href).href ELSE href

isSuspiciousLink(href) ==
    IF ValidURL(href)
    THEN LET url == ParseURL(href)
         IN  \/ url.hostname \in linkShorteners
             \/ Includes(url.href, "..")
             \/ Len(url.href) > 100
    ELSE TRUE

\* isMisleadingLink testing the brand against the hostname of the target.
isMisleadingLinkByHostname(textContent, href) ==
    LET displayText == Trim(ToLowerCase(textContent))
        hostname    == IF ValidURL(href) THEN ParseURL(href).hostname ELSE ""
    IN  \E k \in 1..Len(linkBrands) :
            Includes(displayText, linkBrands[k]) /\ ~Includes(hostname, linkBrands[k])

isMisleadingLink(textContent, href) ==
    LET displayText == Trim(ToLowerCase(textContent))
        actualUrl   == ToLowerCase(LinkHref(href))
    IN  \E k \in 1..Len(linkBrands) :
            Includes(displayText, linkBrands[k]) /\ ~Includes(actualUrl, linkBrands[k])

isSuspiciousUrl(url) ==
    IF ValidURL(url)
    THEN LET domain == ToLowerCase(ParseURL(url).hostname)
         IN  \/ Includes(domain, "secure") /\ Includes(domain, "verify")
             \/ SplitLength(domain, ".") > 4
    ELSE TRUE

\* What the checks of analyzeLinks and analyzeForms find for each element;
\* for a form without action attribute, form.action is the document's URL.
ElementChecks(id, documentUrl) ==
    LET e == Element(id)
    IN  [tagName            |-> e.tagName,
         textContent        |-> e.textContent,
         containsFormOrLink |-> e.containsFormOrLink,
         password           |-> e.password,
         email              |-> e.email,
         sensitive          |-> e.password \/ e.email \/ e.card,
         suspiciousLink     |-> e.tagName = "A" /\ isSuspiciousLink(LinkHref(e.href)),
         misleadingLink     |-> e.tagName = "A" /\ isMisleadingLink(e.textContent, e.href),
         suspiciousAction   |-> e.tagName = "FORM" /\
                                isSuspiciousUrl(IF e.action # "" THEN e.action
                                                ELSE documentUrl)]

\* The documents the content script is started in: their URL and the nodes
\* under the body once the parser has built it.
Documents ==
    {[href |-> "https://example.org/", body |-> <<"a3", "a2">>],
     [href |-> "http://shop.example/", body |-> <<"t1", "f1", "a2">>],
     [href |-> "http://shop.example/", body |-> <<"a1">>]}

\* window.location.protocol of a document of the model.
Protocol(href) == IF SubSeq(href, 1, 6) = "https:" THEN "https:" ELSE "http:"

\* getTextNodes(document.body): the text of the nodes that hold text.
RECURSIVE getTextNodes(_)
getTextNodes(ids) ==
    IF ids = <<>> THEN <<>>
    ELSE (IF Element(Head(ids)).textContent # "" THEN <<Element(Head(ids)).textContent>>
          ELSE <<>>)
         \o getTextNodes(Tail(ids))

\* addSuspiciousFlag calls of analyzeText, from the k-th keyword on.
RECURSIVE KeywordFlags(_, _)
KeywordFlags(fullText, k) ==
    IF k > Len(phishingKeywords) THEN <<>>
    ELSE (IF Includes(fullText, phishingKeywords[k])
          THEN <<"Phishing keyword detected: \"" \o phishingKeywords[k] \o "\"">>
          ELSE <<>>)
         \o KeywordFlags(fullText, k + 1)

\* The bodies a document of the model can have: its own nodes followed by
\* up to maxInserts inserted nodes.
Bodies(maxInserts) ==
    UNION {{d.body \o ext :
               ext \in {f \in [1..n -> ElementIds] :
                           /\ \A i, j \in 1..n : i # j => f[i] # f[j]
                           /\ \A i \in 1..n : \A k \in 1..Len(d.body) : f[i] # d.body[k]}} :
           d \in Documents, n \in 0..maxInserts}

\* The flags analyzeText emits for each body.
textFlags(maxInserts) ==
    [body \in Bodies(maxInserts) |->
        KeywordFlags(ToLowerCase(JoinWithSpace(getTextNodes(body))), 1)]

\* The checks of every element in every document of the model, by the href
\* of the document.
elementChecks ==
    [href \in {d.href : d \in Documents} |->
        [id \in ElementIds |-> ElementChecks(id, href)]]

VARIABLES
    suspiciousDomains,  \* PhishingDetector.suspiciousDomains (a Set)
    storage,            \* chrome.storage.local: suspiciousDomains, stats,
                        \* whitelistedDomains, analysis[tabId]
    loading,            \* loadSuspiciousDomains suspended at its await
    tasks,              \* async calls of analyzeUrl suspended at an await
    badge,              \* chrome.action badge of each tab
    page,               \* what has been injected into each tab's document
    nav,                \* the navigation of each tab that has not completed
    popup,              \* the PopupController
    nAnalyses,          \* calls of analyzeUrl so far
    nReports,           \* reportPhishing messages handled so far
    lastCall,           \* the last call of analyzeUrl and what it invoked
    solo,               \* the analysis that started with nothing else pending
    scored,             \* the last two results of calculateRiskScore, taken
                        \* with the same suspicious set
    reported,           \* the hostnames reported with reportPhishing
    tables,             \* new URL(url) and the sub-scores of every URL of the
                        \* model, computed once: they depend on the URL alone
    content             \* the PageAnalyzer of one document and the document

vars == <<suspiciousDomains, storage, loading, tasks, badge, page,
          nav, popup, nAnalyses, nReports, lastCall, solo, scored, reported, tables,
                   content>>

NoPage   == [dialog |-> "none", blocked |-> FALSE, warning |-> FALSE]
NoBadge  == [text |-> "", color |-> ""]
NoCall   == [id |-> 0, tabId |-> 0, url |-> "", threw |-> FALSE, riskScore |-> 0,
             alert |-> "none", block |-> FALSE, warn |-> FALSE, stats |-> FALSE]
NoPopup  == [open |-> FALSE, tabId |-> 0, currentAnalysis |-> None,
             status |-> [class |-> "", message |-> ""], pc |-> "idle", stats |-> None]
NoScored == [first  |-> [url |-> "", riskScore |-> 0],
             second |-> [url |-> "", riskScore |-> 0]]

NoClick  == [element |-> "", answers |-> <<>>, navigated |-> FALSE]
NoSubmit == [form |-> "", prompted |-> FALSE, submitted |-> FALSE]
NoContent ==
    [pc |-> "none", runAt |-> "", href |-> "", readyState |-> "",
     hasBody |-> FALSE, body |-> <<>>,
     domReady |-> FALSE, submitListener |-> FALSE, observing |-> FALSE,
     records |-> <<>>, timers |-> <<>>,
     suspiciousElements |-> <<>>,
     listeners |-> [id \in ElementIds |-> <<>>],
     phishingFlags |-> None,
     formSubmissions |-> <<>>,
     lastClick |-> NoClick, lastSubmit |-> NoSubmit,
     runs |-> 0, emitted |-> <<>>, covered |-> {}, inserted |-> {}]

Init ==
    /\ suspiciousDomains = <<>>
    /\ storage \in {[suspiciousDomains  |-> p,
                     stats              |-> None,
                     whitelistedDomains |-> None,
                     analysis           |-> [t \in Tabs |-> None]] : p \in PersistedAtStart}
    /\ loading = [pending |-> TRUE, result |-> storage.suspiciousDomains]
    /\ tasks = {}
    /\ badge = [t \in Tabs |-> NoBadge]
    /\ page = [t \in Tabs |-> NoPage]
    /\ nav = [t \in Tabs |-> None]
    /\ popup = NoPopup
    /\ nAnalyses = 0
    /\ nReports = 0
    /\ lastCall = NoCall
    /\ solo = [id |-> 0, before |-> ZeroStats]
    /\ scored = NoScored
    /\ reported = {}
    /\ tables = [urlObjects |-> urlObjects, analysed |-> Analysed,
                 elementChecks |-> elementChecks,
                 textFlags |-> textFlags(MaxInserts),
                 protocol |-> [href \in {d.href : d \in Documents} |-> Protocol(href)]]
    /\ content = NoContent

\* Nothing is suspended at an await.
Quiescent == tasks = {} /\ ~loading.pending /\ popup.pc = "idle"

(***************************************************************************)
(* PhishingDetector: calculateRiskScore over the tables                    *)
(***************************************************************************)

\* calculateRiskScore with the reputation test moved before the whitelist
\* test: a whitelisted host that is in the suspicious set is scored.
calculateRiskScoreReputationFirst(urlObj, suspicious) ==
    LET a   == tables.analysed[urlObj.href]
        sum == a.domainScore + a.urlScore + a.patternScore
    IN  IF SetHas(suspicious, a.domain) THEN Min(80 + sum, 100)
        ELSE IF a.domain \in whitelistedDomains THEN 0
        ELSE Min(sum, 100)

\* calculateRiskScore without the final Math.min(totalScore, 100).
calculateRiskScoreUncapped(urlObj, suspicious) ==
    LET a == tables.analysed[urlObj.href]
    IN  IF a.domain \in whitelistedDomains THEN 0
        ELSE   (IF SetHas(suspicious, a.domain) THEN 80 ELSE 0)
             + a.domainScore + a.urlScore + a.patternScore

calculateRiskScore(urlObj, suspicious) ==
    LET a == tables.analysed[urlObj.href]
    IN  IF a.domain \in whitelistedDomains THEN 0
        ELSE Min(  (IF SetHas(suspicious, a.domain) THEN 80 ELSE 0)
                 + a.domainScore + a.urlScore + a.patternScore,
                 100)

(***************************************************************************)
(* PhishingDetector: loadSuspiciousDomains (called by init)                *)
(***************************************************************************)

\* The continuation after "await chrome.storage.local.get": the result is
\* the value stored when the constructor issued the get.
LoadSuspiciousDomains ==
    /\ loading.pending
    /\ loading' = [loading EXCEPT !.pending = FALSE]
    /\ suspiciousDomains' = Loaded(loading.result, suspiciousDomains)
    /\ UNCHANGED <<storage, tasks, badge, page, nav, popup,
                   nAnalyses, nReports, lastCall, solo, scored, reported, tables,
                   content>>

(***************************************************************************)
(* PhishingDetector: analyzeUrl                                            *)
(***************************************************************************)

updateBadge(riskScore) ==
    IF riskScore > 60 THEN [text |-> "blocked", color |-> "#f44336"]
    ELSE IF riskScore > 30 THEN [text |-> "warning", color |-> "#ff9800"]
    ELSE IF riskScore > 0 THEN [text |-> "check", color |-> "#4CAF50"]
    ELSE [text |-> "", color |-> "#4CAF50"]

Task(id, kind, tabId, riskScore, alertType, stats) ==
    [id |-> id, kind |-> kind, tabId |-> tabId, riskScore |-> riskScore,
     alertType |-> alertType, stats |-> stats]

\* CallsFor with the thresholds of the README (blocked above 70, warned
\* above 40).
CallsForDocumented(id, tabId, riskScore, stats) ==
    (IF riskScore > 70
     THEN {Task(id, "showPhishingAlert", tabId, riskScore, "BLOCKED", None),
           Task(id, "blockPhishingSite", tabId, riskScore, "none", None)}
     ELSE IF riskScore > 40
     THEN {Task(id, "showPhishingAlert", tabId, riskScore, "WARNING", None),
           Task(id, "warnUser", tabId, riskScore, "none", None)}
     ELSE {})
    \cup {Task(id, "updateDetectionStats", tabId, riskScore, "none", stats)}

\* CallsFor where the medium branch calls blockPhishingSite as well.
CallsForWarnBlocks(id, tabId, riskScore, stats) ==
    (IF riskScore > 60
     THEN {Task(id, "showPhishingAlert", tabId, riskScore, "BLOCKED", None),
           Task(id, "blockPhishingSite", tabId, riskScore, "none", None)}
     ELSE IF riskScore > 30
     THEN {Task(id, "showPhishingAlert", tabId, riskScore, "WARNING", None),
           Task(id, "warnUser", tabId, riskScore, "none", None),
           Task(id, "blockPhishingSite", tabId, riskScore, "none", None)}
     ELSE {})
    \cup {Task(id, "updateDetectionStats", tabId, riskScore, "none", stats)}

\* The async calls analyzeUrl makes for a score, each run up to its first await.
CallsFor(id, tabId, riskScore, stats) ==
    (IF riskScore > 60
     THEN {Task(id, "showPhishingAlert", tabId, riskScore, "BLOCKED", None),
           Task(id, "blockPhishingSite", tabId, riskScore, "none", None)}
     ELSE IF riskScore > 30
     THEN {Task(id, "showPhishingAlert", tabId, riskScore, "WARNING", None),
           Task(id, "warnUser", tabId, riskScore, "none", None)}
     ELSE {})
    \cup {Task(id, "updateDetectionStats", tabId, riskScore, "none", stats)}

\* analyzeUrl from the computed riskScore on, one synchronous run: the calls
\* it makes run up to their first await, where their storage requests are
\* already issued (the storage area serves requests in the order they are
\* issued).
ApplyRiskScore(url, tabId, urlObj, riskScore) ==
    \E calls \in {CallsFor(nAnalyses + 1, tabId, riskScore, storage.stats)} :
    LET domain  == tables.analysed[urlObj.href].domain
        blocked == \E t \in calls : t.kind = "blockPhishingSite"
        added   == SetAdd(suspiciousDomains, urlObj.hostname)
    IN  /\ suspiciousDomains' = IF blocked THEN added ELSE suspiciousDomains
        /\ tasks' = tasks \cup calls
        /\ badge' = [badge EXCEPT ![tabId] = updateBadge(riskScore)]
        /\ storage' =
             [storage EXCEPT
                !.suspiciousDomains = IF blocked THEN Saved(added) ELSE @,
                !.analysis[tabId] = Some([url       |-> url,
                                          domain    |-> domain,
                                          riskScore |-> riskScore,
                                          timestamp |-> nAnalyses + 1])]
        /\ lastCall' =
             [id |-> nAnalyses + 1, tabId |-> tabId, url |-> url, threw |-> FALSE,
              riskScore |-> riskScore,
              alert |-> IF \E t \in calls : t.kind = "showPhishingAlert"
                        THEN (CHOOSE t \in calls :
                                 t.kind = "showPhishingAlert").alertType
                        ELSE "none",
              block |-> blocked,
              warn  |-> \E t \in calls : t.kind = "warnUser",
              stats |-> \E t \in calls : t.kind = "updateDetectionStats"]
        /\ solo' = IF Quiescent
                   THEN [id |-> nAnalyses + 1, before |-> StatsOr(storage.stats)]
                   ELSE [solo EXCEPT !.id = 0]

\* analyzeUrl whose catch resets the badge of the tab.
analyzeUrlCatchResetsBadge(url, tabId) ==
    /\ nAnalyses < MaxAnalyses
    /\ nAnalyses' = nAnalyses + 1
    /\ IF url \notin DOMAIN tables.urlObjects
       THEN /\ lastCall' = [NoCall EXCEPT !.id = nAnalyses', !.tabId = tabId,
                                          !.url = url, !.threw = TRUE]
            /\ solo' = [solo EXCEPT !.id = 0]
            /\ badge' = [badge EXCEPT ![tabId] = NoBadge]
            /\ UNCHANGED <<suspiciousDomains, storage, tasks>>
       ELSE \E urlObj \in {tables.urlObjects[url]} :
            \E riskScore \in {calculateRiskScore(urlObj, suspiciousDomains)} :
                ApplyRiskScore(url, tabId, urlObj, riskScore)

analyzeUrl(url, tabId) ==
    /\ nAnalyses < MaxAnalyses
    /\ nAnalyses' = nAnalyses + 1
    /\ IF url \notin DOMAIN tables.urlObjects
       THEN \* new URL(url) throws: the catch logs the error
            /\ lastCall' = [NoCall EXCEPT !.id = nAnalyses', !.tabId = tabId,
                                          !.url = url, !.threw = TRUE]
            /\ solo' = [solo EXCEPT !.id = 0]
            /\ UNCHANGED <<suspiciousDomains, storage, tasks, badge>>
       ELSE \E urlObj \in {tables.urlObjects[url]} :
            \E riskScore \in {calculateRiskScore(urlObj, suspiciousDomains)} :
                ApplyRiskScore(url, tabId, urlObj, riskScore)

\* chrome.webNavigation.onBeforeNavigate listener, for the main frame
\* (frameId 0): a new document starts to load in the tab.
OnBeforeNavigate(tabId, url) ==
    /\ analyzeUrl(url, tabId)
    /\ nav' = [nav EXCEPT ![tabId] = Some(url)]
    /\ page' = [page EXCEPT ![tabId] = NoPage]
    /\ UNCHANGED <<loading, popup, nReports, scored, reported, tables,
                   content>>

\* chrome.tabs.onUpdated listener, for status "complete" of a tab with a url.
OnUpdated(tabId) ==
    /\ IsSome(nav[tabId])
    /\ analyzeUrl(Val(nav[tabId]), tabId)
    /\ nav' = [nav EXCEPT ![tabId] = None]
    /\ UNCHANGED <<loading, page, popup, nReports, scored, reported, tables,
                   content>>

(***************************************************************************)
(* PhishingDetector: the continuations of the async methods                *)
(***************************************************************************)

\* showPhishingAlert after "await chrome.scripting.executeScript": the dialog
\* is in the page and showNotification runs, or the injection failed and the
\* catch logs the error.
ShowPhishingAlert(t, injected) ==
    /\ t \in tasks /\ t.kind = "showPhishingAlert"
    /\ tasks' = tasks \ {t}
    /\ page' = IF injected THEN [page EXCEPT ![t.tabId].dialog = t.alertType] ELSE page
    /\ UNCHANGED <<suspiciousDomains, storage, loading, badge, nav, popup,
                   nAnalyses, nReports, lastCall, solo, scored, reported, tables,
                   content>>

\* blockPhishingSite that takes the hostname out of the suspicious set, in
\* memory and in storage, when the injection of the block page fails.
BlockPhishingSiteRollsBack(t, injected) ==
    /\ t \in tasks /\ t.kind = "blockPhishingSite"
    /\ tasks' = tasks \ {t}
    /\ page' = IF injected
               THEN [page EXCEPT ![t.tabId] = [NoPage EXCEPT !.blocked = TRUE]]
               ELSE page
    /\ LET domain == Val(storage.analysis[t.tabId]).domain
           kept   == SelectSeq(suspiciousDomains, LAMBDA d : d # domain)
       IN  IF injected
           THEN UNCHANGED <<suspiciousDomains, storage>>
           ELSE /\ suspiciousDomains' = kept
                /\ storage' = [storage EXCEPT !.suspiciousDomains = Saved(kept)]
    /\ UNCHANGED <<loading, badge, nav, popup, nAnalyses, nReports,
                   lastCall, solo, scored, reported, tables,
                   content>>

\* blockPhishingSite after its awaits (saveSuspiciousDomains, whose
\* continuation only issues the injection, then executeScript): the block
\* page has replaced the document, or the injection failed (logged).
BlockPhishingSite(t, injected) ==
    /\ t \in tasks /\ t.kind = "blockPhishingSite"
    /\ tasks' = tasks \ {t}
    /\ page' = IF injected
               THEN [page EXCEPT ![t.tabId] = [NoPage EXCEPT !.blocked = TRUE]]
               ELSE page
    /\ UNCHANGED <<suspiciousDomains, storage, loading, badge,
                   nav, popup, nAnalyses, nReports, lastCall, solo, scored, reported, tables,
                   content>>

\* warnUser after "await chrome.scripting.executeScript".
WarnUser(t, injected) ==
    /\ t \in tasks /\ t.kind = "warnUser"
    /\ tasks' = tasks \ {t}
    /\ page' = IF injected THEN [page EXCEPT ![t.tabId].warning = TRUE] ELSE page
    /\ UNCHANGED <<suspiciousDomains, storage, loading, badge,
                   nav, popup, nAnalyses, nReports, lastCall, solo, scored, reported, tables,
                   content>>

\* StatsAfter without the increment of alertsShown.
StatsAfterNoAlert(stats, riskScore) ==
    [sitesBlocked    |-> stats.sitesBlocked + (IF riskScore > 60 THEN 1 ELSE 0),
     threatsDetected |-> stats.threatsDetected + (IF riskScore > 30 THEN 1 ELSE 0),
     alertsShown     |-> stats.alertsShown]

\* The counters updateDetectionStats writes for a score, from the stats read.
StatsAfter(stats, riskScore) ==
    [sitesBlocked    |-> stats.sitesBlocked + (IF riskScore > 60 THEN 1 ELSE 0),
     threatsDetected |-> stats.threatsDetected + (IF riskScore > 30 THEN 1 ELSE 0),
     alertsShown     |-> stats.alertsShown + (IF riskScore > 30 THEN 1 ELSE 0)]

\* updateDetectionStats after "await chrome.storage.local.get(['stats'])": it
\* updates the record it read and issues the set.
UpdateDetectionStats(t) ==
    /\ t \in tasks /\ t.kind = "updateDetectionStats"
    /\ tasks' = tasks \ {t}
    /\ storage' = [storage EXCEPT !.stats = Some(StatsAfter(StatsOr(t.stats), t.riskScore))]
    /\ UNCHANGED <<suspiciousDomains, loading, badge, page,
                   nav, popup, nAnalyses, nReports, lastCall, solo, scored, reported, tables,
                   content>>

(***************************************************************************)
(* PopupController and the background's message listener                   *)
(***************************************************************************)

updateStatus(riskScore) ==
    IF riskScore <= 20 THEN [class |-> "status-safe", message |-> "Safe Site"]
    ELSE IF riskScore <= 40 THEN [class |-> "status-safe", message |-> "Low Risk"]
    ELSE IF riskScore <= 70
    THEN [class |-> "status-warning", message |-> "Medium Risk - Be Cautious"]
    ELSE [class |-> "status-danger", message |-> "High Risk - Potential Phishing"]

\* displayNoAnalysis
NoAnalysisStatus == [class |-> "", message |-> "Unable to analyze"]

\* PopupLoadAnalysis where getAnalysis answers with the record of tab 1
\* whatever the active tab is.
PopupLoadAnalysisFirstTab(tabId) ==
    /\ popup.pc = "idle"
    /\ LET response == storage.analysis[1]
       IN  popup' = [open            |-> TRUE,
                     tabId           |-> tabId,
                     currentAnalysis |-> response,
                     status          |-> IF IsSome(response)
                                         THEN updateStatus(Val(response).riskScore)
                                         ELSE NoAnalysisStatus,
                     pc              |-> "idle",
                     stats           |-> None]
    /\ UNCHANGED <<suspiciousDomains, storage, loading, tasks, badge, page,
                   nav, nAnalyses, nReports, lastCall, solo, scored, reported, tables,
                   content>>

\* The popup is opened on the active tab: loadAnalysis sends getAnalysis, the
\* listener answers with the stored record of that tab or null, and
\* displayAnalysis or displayNoAnalysis shows it.
PopupLoadAnalysis(tabId) ==
    /\ popup.pc = "idle"
    /\ LET response == storage.analysis[tabId]
       IN  popup' = [open            |-> TRUE,
                     tabId           |-> tabId,
                     currentAnalysis |-> response,
                     status          |-> IF IsSome(response)
                                         THEN updateStatus(Val(response).riskScore)
                                         ELSE NoAnalysisStatus,
                     pc              |-> "idle",
                     stats           |-> None]
    /\ UNCHANGED <<suspiciousDomains, storage, loading, tasks, badge, page,
                   nav, nAnalyses, nReports, lastCall, solo, scored, reported, tables,
                   content>>

\* The listener's reportPhishing branch for a message with this url; the
\* sender, the popup's click handler, is then suspended before updateStats.
ReportPhishing(url) ==
    /\ popup.pc = "idle"
    /\ nReports < MaxReports
    /\ nReports' = nReports + 1
    /\ LET domain == tables.urlObjects[url].hostname
           added  == SetAdd(suspiciousDomains, domain)
       IN  /\ suspiciousDomains' = added
           /\ storage' = [storage EXCEPT !.suspiciousDomains = Saved(added)]
           /\ reported' = reported \cup {domain}
    /\ popup' = [popup EXCEPT !.pc = "reported"]
    /\ solo' = [solo EXCEPT !.id = 0]
    /\ UNCHANGED <<loading, tasks, badge, page, nav, nAnalyses, lastCall, scored, tables,
                   content>>

\* A click on report-btn of the open popup: the url of the analysis it shows
\* is reported.
ReportClick ==
    /\ popup.open /\ IsSome(popup.currentAnalysis)
    /\ ReportPhishing(Val(popup.currentAnalysis).url)

\* The same click when the popup's display is left out: the popup was opened
\* on some tab and shows that tab's stored record.
ReportStoredAnalysis ==
    \E tabId \in Tabs :
        /\ IsSome(storage.analysis[tabId])
        /\ ReportPhishing(Val(storage.analysis[tabId]).url)

\* PopupController.updateStats up to "await chrome.storage.local.get".
PopupUpdateStatsGet ==
    /\ popup.pc = "reported"
    /\ popup' = [popup EXCEPT !.pc = "updateStats", !.stats = storage.stats]
    /\ solo' = [solo EXCEPT !.id = 0]
    /\ UNCHANGED <<suspiciousDomains, storage, loading, tasks, badge, page,
                   nav, nAnalyses, nReports, lastCall, scored, reported, tables,
                   content>>

\* PopupController.updateStats after the get: threatsDetected + 1 is stored.
PopupUpdateStatsSet ==
    /\ popup.pc = "updateStats"
    /\ storage' = [storage EXCEPT !.stats =
                     Some([StatsOr(popup.stats) EXCEPT !.threatsDetected = @ + 1])]
    /\ popup' = [popup EXCEPT !.pc = "idle", !.stats = None]
    /\ solo' = [solo EXCEPT !.id = 0]
    /\ UNCHANGED <<suspiciousDomains, loading, tasks, badge, page,
                   nav, nAnalyses, nReports, lastCall, scored, reported, tables,
                   content>>

\* A click on whitelist-btn: the domain of the displayed analysis is appended
\* to the stored whitelistedDomains list unless the list includes it.
TrustSite ==
    /\ popup.open /\ popup.pc = "idle" /\ IsSome(popup.currentAnalysis)
    /\ LET domain    == Val(popup.currentAnalysis).domain
           whitelist == IF IsSome(storage.whitelistedDomains)
                        THEN Val(storage.whitelistedDomains) ELSE <<>>
       IN  /\ ~SetHas(whitelist, domain)
           /\ storage' = [storage EXCEPT !.whitelistedDomains = Some(Append(whitelist, domain))]
    /\ UNCHANGED <<suspiciousDomains, loading, tasks, badge, page,
                   nav, popup, nAnalyses, nReports, lastCall, solo, scored, reported, tables,
                   content>>

(***************************************************************************)
(* Specifications                                                          *)
(***************************************************************************)

\* The continuations of the background's async methods.
Continue ==
    \/ LoadSuspiciousDomains
    \/ \E t \in tasks, injected \in BOOLEAN : ShowPhishingAlert(t, injected)
    \/ \E t \in tasks, injected \in BOOLEAN : BlockPhishingSite(t, injected)
    \/ \E t \in tasks, injected \in BOOLEAN : WarnUser(t, injected)
    \/ \E t \in tasks : UpdateDetectionStats(t)

\* The browser's navigation events.
Navigate ==
    \/ \E tabId \in Tabs, url \in Urls : OnBeforeNavigate(tabId, url)
    \/ \E tabId \in Tabs : OnUpdated(tabId)

(***************************************************************************)
(* PageAnalyzer (content script)                                           *)
(***************************************************************************)

\* setTimeout(() => this.analyzePage(), 100), and the step of the clock.
ReanalysisDelay == 100
TickMs == 50

\* When the browser injects the script: before the parser has built the
\* body (the manifest's run_at), or into a document that is complete.
RunAt == {"document_start", "document_idle"}

\* The variables of the background worker and the popup.
extension == <<suspiciousDomains, storage, loading, tasks, badge, page, nav, popup,
               nAnalyses, nReports, lastCall, solo, scored, reported, tables>>

\* markSuspiciousElement calls of analyzeLinks for the links ids, in order.
RECURSIVE LinkMarks(_, _)
LinkMarks(checks, ids) ==
    IF ids = <<>> THEN <<>>
    ELSE LET id == Head(ids)
         IN  (IF checks[id].tagName = "A" /\ checks[id].suspiciousLink
              THEN <<[element |-> id, reason |-> "Suspicious link detected"]>>
              ELSE <<>>)
             \o (IF checks[id].tagName = "A" /\ checks[id].misleadingLink
                 THEN <<[element |-> id, reason |-> "Misleading link text"]>>
                 ELSE <<>>)
             \o LinkMarks(checks, Tail(ids))

\* markSuspiciousElement calls of analyzeForms.
RECURSIVE FormMarks(_, _, _)
FormMarks(checks, ids, isSecure) ==
    IF ids = <<>> THEN <<>>
    ELSE LET id == Head(ids)
             sensitive == checks[id].tagName = "FORM" /\ checks[id].sensitive
         IN  (IF sensitive /\ ~isSecure
              THEN <<[element |-> id,
                      reason  |-> "Insecure form collecting sensitive data"]>>
              ELSE <<>>)
             \o (IF sensitive /\ checks[id].suspiciousAction
                 THEN <<[element |-> id, reason |-> "Form submits to suspicious URL"]>>
                 ELSE <<>>)
             \o FormMarks(checks, Tail(ids), isSecure)

hasSensitiveContent(checks, ids) ==
    \E i \in 1..Len(ids) : checks[ids[i]].tagName = "FORM" /\ checks[ids[i]].sensitive

\* addSuspiciousFlag call of checkSSL.
SSLFlags(checks, ids, protocol) ==
    IF protocol # "https:" /\ hasSensitiveContent(checks, ids)
    THEN <<"Non-HTTPS site collecting sensitive information">>
    ELSE <<>>

\* The click listeners markSuspiciousElement adds to element id for marks.
ListenersFor(checks, marks, id) ==
    IF checks[id].tagName = "A"
    THEN [k \in 1..Len(SelectSeq(marks, LAMBDA m : m.element = id)) |->
             SelectSeq(marks, LAMBDA m : m.element = id)[k].reason]
    ELSE <<>>

\* analyzePage: analyzeLinks, analyzeForms, analyzeImages (the documents hold
\* no img), analyzeText, checkSSL; markSuspiciousElement pushes and adds a
\* click listener to a link, addSuspiciousFlag pushes.
analyzePage(c) ==
    LET checks == tables.elementChecks[c.href]
        marks  == LinkMarks(checks, c.body)
                  \o FormMarks(checks, c.body, tables.protocol[c.href] = "https:")
        flags  == tables.textFlags[c.body]
                  \o SSLFlags(checks, c.body, tables.protocol[c.href])
    IN  [c EXCEPT
            !.suspiciousElements = @ \o marks,
            !.listeners = [id \in ElementIds |-> @[id] \o ListenersFor(checks, marks, id)],
            !.phishingFlags = IF flags = <<>> THEN @
                              ELSE Some((IF IsSome(@) THEN Val(@) ELSE <<>>) \o flags),
            !.runs = @ + 1,
            !.emitted = flags,
            !.covered = @ \cup {c.body[i] : i \in {j \in 1..Len(c.body) :
                                     checks[c.body[j]].tagName \in {"A", "FORM"}}}]

\* The content script starts in a document (its protocol is http: or
\* https:): new PageAnalyzer() runs init.  With the document still loading
\* and no body yet, init registers the DOMContentLoaded listener and the
\* submit listener, and observer.observe(document.body) throws a TypeError
\* out of the constructor; otherwise init runs analyzePage and observes.
ContentScriptStart(doc, runAt) ==
    /\ content.pc = "none"
    /\ LET loadingNow == runAt = "document_start"
           started == [content EXCEPT
                          !.pc = "running",
                          !.runAt = runAt,
                          !.href = doc.href,
                          !.body = doc.body,
                          !.readyState = IF loadingNow THEN "loading" ELSE "complete",
                          !.hasBody = ~loadingNow,
                          !.domReady = loadingNow,
                          !.submitListener = TRUE,
                          !.observing = ~loadingNow]
       IN  content' = IF loadingNow THEN started ELSE analyzePage(started)
    /\ UNCHANGED extension

\* The parser has built the document: DOMContentLoaded is dispatched.
DomContentLoaded ==
    /\ content.pc = "running"
    /\ content.readyState = "loading"
    /\ LET loaded == [content EXCEPT !.readyState = "interactive", !.hasBody = TRUE]
       IN  content' = IF content.domReady THEN analyzePage(loaded) ELSE loaded
    /\ UNCHANGED extension

\* A script of the page appends a node to the body after the initial load;
\* an observer that observes the body gets a mutation record.
Insert(id) ==
    /\ content.pc = "running"
    /\ content.readyState # "loading"
    /\ \A i \in 1..Len(content.body) : content.body[i] # id
    /\ Cardinality(content.inserted) < MaxInserts
    /\ content' = [content EXCEPT
                      !.body = Append(@, id),
                      !.inserted = @ \cup {id},
                      !.records = IF content.observing THEN Append(@, id) ELSE @]
    /\ UNCHANGED extension

\* The MutationObserver callback with the records queued so far.
ObserverCallback ==
    /\ content.pc = "running"
    /\ content.records # <<>>
    /\ LET checks == tables.elementChecks[content.href]
           shouldReanalyze ==
               \E i \in 1..Len(content.records) :
                   LET node == checks[content.records[i]]
                   IN  /\ node.tagName # "#text"
                       /\ \/ node.containsFormOrLink
                          \/ node.tagName = "FORM"
                          \/ node.tagName = "A"
       IN  content' = [content EXCEPT
                          !.records = <<>>,
                          !.timers = IF shouldReanalyze
                                     THEN Append(@, ReanalysisDelay) ELSE @]
    /\ UNCHANGED extension

\* Time passes while a timer is pending and none is due.
Tick ==
    /\ content.pc = "running"
    /\ content.timers # <<>>
    /\ \A i \in 1..Len(content.timers) : content.timers[i] > 0
    /\ content' = [content EXCEPT
                      !.timers = [i \in 1..Len(@) |->
                                     IF @[i] > TickMs THEN @[i] - TickMs ELSE 0]]
    /\ UNCHANGED extension

\* The timer set first among those due runs its callback: analyzePage.
TimerFires ==
    /\ content.pc = "running"
    /\ content.timers # <<>>
    /\ content.timers[1] = 0
    /\ content' = analyzePage([content EXCEPT !.timers = Tail(@)])
    /\ UNCHANGED extension

\* A click on a link where the last listener decides alone.
ClickLinkLastAnswerWins(id, answers) ==
    /\ content.pc = "running"
    /\ content.hasBody
    /\ \E i \in 1..Len(content.body) : content.body[i] = id
    /\ tables.elementChecks[content.href][id].tagName = "A"
    /\ Len(answers) = Len(content.listeners[id])
    /\ LET prevented == answers # <<>> /\ ~answers[Len(answers)]
       IN  content' = [content EXCEPT
                          !.lastClick = [element |-> id, answers |-> answers,
                                         navigated |-> ~prevented],
                          !.pc = IF prevented THEN @ ELSE "unloaded"]
    /\ UNCHANGED extension

\* The user clicks a link of the document: each click listener added by
\* markSuspiciousElement shows its confirm, in the order they were added,
\* and calls preventDefault when the answer is no; without preventDefault
\* the browser follows the link and the document is unloaded.
ClickLink(id, answers) ==
    /\ content.pc = "running"
    /\ content.hasBody
    /\ \E i \in 1..Len(content.body) : content.body[i] = id
    /\ tables.elementChecks[content.href][id].tagName = "A"
    /\ Len(answers) = Len(content.listeners[id])
    /\ LET prevented == \E k \in 1..Len(answers) : ~answers[k]
       IN  content' = [content EXCEPT
                          !.lastClick = [element |-> id, answers |-> answers,
                                         navigated |-> ~prevented],
                          !.pc = IF prevented THEN @ ELSE "unloaded"]
    /\ UNCHANGED extension

\* The submit listener of monitorForms (Date.now() is left out of the
\* logged entry): a form with a password or email field on a page that is
\* not https asks for confirmation; a submission that is not prevented
\* unloads the document.
SubmitForm(id, answer) ==
    /\ content.pc = "running"
    /\ content.hasBody
    /\ content.submitListener
    /\ Len(content.formSubmissions) < MaxSubmits
    /\ \E i \in 1..Len(content.body) : content.body[i] = id
    /\ LET form     == tables.elementChecks[content.href][id]
           prompted == (form.password \/ form.email) /\ tables.protocol[content.href] # "https:"
       IN  /\ form.tagName = "FORM"
           /\ (~prompted => answer)
           /\ content' = [content EXCEPT
                  !.formSubmissions =
                      Append(@, [action      |-> id,
                                 hasPassword |-> form.password,
                                 hasEmail    |-> form.email]),
                  !.lastSubmit = [form |-> id, prompted |-> prompted,
                                  submitted |-> answer],
                  !.pc = IF answer THEN "unloaded" ELSE @]
    /\ UNCHANGED extension

\* The answers a user can give to n prompts.
Answers(n) == [1..n -> BOOLEAN]

\* The content script in one document.
NextContent ==
    \/ \E doc \in Documents, runAt \in RunAt : ContentScriptStart(doc, runAt)
    \/ DomContentLoaded
    \/ \E id \in ElementIds : Insert(id)
    \/ ObserverCallback
    \/ Tick
    \/ TimerFires
    \/ \E id \in ElementIds :
          \E answers \in Answers(Len(content.listeners[id])) : ClickLink(id, answers)
    \/ \E id \in ElementIds, answer \in BOOLEAN : SubmitForm(id, answer)

ContentSpec == Init /\ [][NextContent]_vars

\* The events of the document that happen once they are enabled: the end of
\* parsing, the delivery of mutation records, the passing of time and the
\* timer callbacks.
ContentProgress ==
    \/ DomContentLoaded
    \/ ObserverCallback
    \/ Tick
    \/ TimerFires

ContentLiveSpec == ContentSpec /\ WF_vars(ContentProgress)

\* The whole extension.
Next ==
    \/ Continue
    \/ Navigate
    \/ \E tabId \in Tabs : PopupLoadAnalysis(tabId)
    \/ ReportClick
    \/ PopupUpdateStatsGet
    \/ PopupUpdateStatsSet
    \/ TrustSite
    \/ NextContent

Spec == Init /\ [][Next]_vars

\* The background service worker and every writer of the state it shares with
\* the popup (the suspicious set and the stats); what the popup displays and
\* the whitelistedDomains list it stores, which no other code reads, are left
\* out.
NextWorker ==
    \/ Continue
    \/ Navigate
    \/ ReportStoredAnalysis
    \/ PopupUpdateStatsGet
    \/ PopupUpdateStatsSet

WorkerSpec == Init /\ [][NextWorker]_vars

\* The popup over the analyses of the background: the continuations of the
\* calls analyzeUrl makes, which write only the page and the stats, stay
\* suspended.
NextPopup ==
    \/ LoadSuspiciousDomains
    \/ Navigate
    \/ \E tabId \in Tabs : PopupLoadAnalysis(tabId)
    \/ ReportClick
    \/ PopupUpdateStatsGet
    \/ PopupUpdateStatsSet
    \/ TrustSite

PopupSpec == Init /\ [][NextPopup]_vars

\* Two calls of a calculateRiskScore that records the hostname it scored in
\* the suspicious set.
ScorePairRemembersFirst(url1, url2) ==
    LET after == SetAdd(suspiciousDomains, tables.urlObjects[url1].hostname)
    IN  /\ scored' = [first  |-> [url |-> url1, riskScore |->
                                    calculateRiskScore(tables.urlObjects[url1], suspiciousDomains)],
                      second |-> [url |-> url2, riskScore |->
                                    calculateRiskScore(tables.urlObjects[url2], after)]]
        /\ suspiciousDomains' = after
        /\ UNCHANGED <<storage, loading, tasks, badge, page, nav,
                       popup, nAnalyses, nReports, lastCall, solo, reported, tables,
                   content>>

\* calculateRiskScore applied to two URLs with the same suspicious set.
ScorePair(url1, url2) ==
    /\ scored' = [first  |-> [url |-> url1, riskScore |->
                                calculateRiskScore(tables.urlObjects[url1], suspiciousDomains)],
                  second |-> [url |-> url2, riskScore |->
                                calculateRiskScore(tables.urlObjects[url2], suspiciousDomains)]]
    /\ UNCHANGED <<suspiciousDomains, storage, loading, tasks, badge, page, nav,
                   popup, nAnalyses, nReports, lastCall, solo, reported, tables,
                   content>>

\* The scoring function over the URLs of the model, two at a time, and over
\* each documented high-risk hostname under both schemes, with the suspicious
\* sets the loader and the reportPhishing listener produce.
NextScore ==
    \/ LoadSuspiciousDomains
    \/ \E url \in DOMAIN tables.urlObjects : ReportPhishing(url)
    \/ \E url1, url2 \in DOMAIN tables.urlObjects \ (DocumentedHighRiskUrls \cup BrandUrls) :
            ScorePair(url1, url2)
    \/ \E url \in BrandUrls : ScorePair(url, url)
    \/ \E host \in DocumentedHighRiskHosts :
            ScorePair(DocumentedUrl("http", host), DocumentedUrl("https", host))

ScoreSpec == Init /\ [][NextScore]_vars

\* analyzeUrl from the computed score on, for any score, once in a behaviour.
DecideScore(tabId, riskScore) ==
    /\ nAnalyses = 0
    /\ nAnalyses' = nAnalyses + 1
    /\ ApplyRiskScore(DecisionUrl, tabId, tables.urlObjects[DecisionUrl], riskScore)
    /\ UNCHANGED <<loading, page, nav, popup, nReports, scored, reported, tables,
                   content>>

\* The decision of analyzeUrl, the counters of updateDetectionStats and the
\* popup's status over every score.
NextDecision ==
    \/ \E tabId \in Tabs, riskScore \in 0..100 : DecideScore(tabId, riskScore)
    \/ \E t \in tasks : UpdateDetectionStats(t)
    \/ \E tabId \in Tabs : PopupLoadAnalysis(tabId)

DecisionSpec == Init /\ [][NextDecision]_vars

(***************************************************************************)
(* Properties of calculateRiskScore                                        *)
(***************************************************************************)

\* The URLs of the model with a whitelisted hostname.
WhitelistedUrls ==
    {url \in DOMAIN urlObjects :
        ToLowerCase(urlObjects[url].hostname) \in whitelistedDomains}

\* C1: for a URL whose lowercased hostname is on the built-in whitelist,
\* calculateRiskScore returns 0 whatever the features of the URL are and
\* whether or not the hostname is in the suspicious set.
C1_WhitelistedScoresZero ==
    /\ \A url \in WhitelistedUrls :
          calculateRiskScore(urlObjects[url], suspiciousDomains) = 0
    /\ scored.first.url \in WhitelistedUrls => scored.first.riskScore = 0
    /\ scored.second.url \in WhitelistedUrls => scored.second.riskScore = 0

\* A whitelisted URL with signals has been scored while its hostname was in
\* the suspicious set.
C1_Witness ==
    /\ scored.first.url \in WhitelistedUrls
    /\ signals[scored.first.url] # {}
    /\ SetHas(suspiciousDomains, urlObjects[scored.first.url].hostname)
    /\ scored.first.riskScore = 0

\* C2: every score calculateRiskScore returns is an integer from 0 to 100,
\* also when the sub-scores add up to more than 100.
C2_ScoreInRange ==
    /\ \A url \in DOMAIN urlObjects :
          calculateRiskScore(urlObjects[url], suspiciousDomains) \in 0..100
    /\ scored.first.riskScore \in 0..100
    /\ scored.second.riskScore \in 0..100

\* A URL whose sub-scores add up to more than 100 has been scored 100.
C2_Witness ==
    /\ scored.first.url \in DOMAIN urlObjects
    /\ LET a == Analysed[urlObjects[scored.first.url].href]
       IN  /\ a.domain \notin whitelistedDomains
           /\ (IF SetHas(suspiciousDomains, a.domain) THEN 80 ELSE 0)
              + a.domainScore + a.urlScore + a.patternScore > 100
    /\ scored.first.riskScore = 100

\* C3: of two URLs with no whitelisted hostname scored with the same
\* reputation state, where the second triggers every signal of the first and
\* exactly one more, the second does not score less than the first.
C3_Monotonic ==
    (/\ scored.first.url \in DOMAIN urlObjects \ WhitelistedUrls
     /\ scored.second.url \in DOMAIN urlObjects \ WhitelistedUrls
     /\ Triggered(scored.first.url, suspiciousDomains)
           \subseteq Triggered(scored.second.url, suspiciousDomains)
     /\ Cardinality(Triggered(scored.second.url, suspiciousDomains)
                       \ Triggered(scored.first.url, suspiciousDomains)) = 1)
    => scored.second.riskScore >= scored.first.riskScore

(***************************************************************************)
(* Properties of the decision                                              *)
(***************************************************************************)

LevelOfAction(s) ==
    LET kinds == {t.kind : t \in CallsFor(0, 0, s, None)}
    IN  IF "blockPhishingSite" \in kinds THEN "high"
        ELSE IF "warnUser" \in kinds THEN "medium" ELSE "low"

LevelOfBadge(s) ==
    IF updateBadge(s).text = "blocked" THEN "high"
    ELSE IF updateBadge(s).text = "warning" THEN "medium" ELSE "low"

LevelOfStats(s) ==
    IF StatsAfter(ZeroStats, s).sitesBlocked = 1 THEN "high"
    ELSE IF StatsAfter(ZeroStats, s).threatsDetected = 1 THEN "medium" ELSE "low"

LevelOfStatus(s) ==
    IF updateStatus(s).class = "status-danger" THEN "high"
    ELSE IF updateStatus(s).class = "status-warning" THEN "medium" ELSE "low"

\* C5: the score of the analysis the popup displays is classified alike by
\* the action of analyzeUrl, the badge of updateBadge, the counters of
\* updateDetectionStats and the status the popup shows for it.
C5_ConsistentThresholds ==
    (popup.open /\ IsSome(popup.currentAnalysis)) =>
        LET s == Val(popup.currentAnalysis).riskScore
        IN  /\ popup.status = updateStatus(s)
            /\ LevelOfBadge(s) = LevelOfAction(s)
            /\ LevelOfStats(s) = LevelOfAction(s)
            /\ LevelOfStatus(s) = LevelOfAction(s)

(***************************************************************************)
(* Properties of the side effects                                          *)
(***************************************************************************)

\* The hostname blockPhishingSite and the reportPhishing listener add.
HostOf(url) == urlObjects[url].hostname

\* The persisted suspiciousDomains list, empty when the key is absent.
Persisted == IF IsSome(storage.suspiciousDomains) THEN Val(storage.suspiciousDomains) ELSE <<>>

\* C6: when an analysis that blocked host h started with nothing pending, no
\* other handler has started since and all its async calls have completed,
\* then h is in the in-memory set and in the persisted list and each of
\* sitesBlocked, threatsDetected and alertsShown is one more than before.
C6_BlockEffects ==
    (solo.id # 0 /\ tasks = {} /\ lastCall.riskScore > 60) =>
        /\ SetHas(suspiciousDomains, HostOf(lastCall.url))
        /\ SetHas(Persisted, HostOf(lastCall.url))
        /\ StatsOr(storage.stats) =
              [sitesBlocked    |-> solo.before.sitesBlocked + 1,
               threatsDetected |-> solo.before.threatsDetected + 1,
               alertsShown     |-> solo.before.alertsShown + 1]

\* A second BLOCK analysis has completed on its own.
C6_Witness ==
    /\ solo.id # 0 /\ tasks = {} /\ lastCall.riskScore > 60
    /\ solo.before.sitesBlocked = 1
    /\ StatsOr(storage.stats).sitesBlocked = 2

\* A step of an analysis with a WARN decision: the call of analyzeUrl or the
\* continuation of one of its async calls.
WarnStep ==
    \/ /\ nAnalyses' # nAnalyses /\ ~lastCall'.threw
       /\ lastCall'.riskScore > 30 /\ lastCall'.riskScore <= 60
    \/ \E t \in tasks \ tasks' : t.riskScore > 30 /\ t.riskScore <= 60

\* A step that may add a domain: a BLOCK decision or a report.
AddingStep ==
    \/ nReports' # nReports
    \/ nAnalyses' # nAnalyses /\ ~lastCall'.threw /\ lastCall'.riskScore > 60

\* A WARN analysis that started with nothing pending has completed on its own.
SoloWarnDone == solo.id # 0 /\ tasks = {} /\ lastCall.riskScore > 30 /\ lastCall.riskScore <= 60

AllowStep ==
    \/ nAnalyses' # nAnalyses /\ ~lastCall'.threw /\ lastCall'.riskScore <= 30
    \/ \E t \in tasks \ tasks' : t.riskScore <= 30

\* C8: in every interleaving, no step of an ALLOW analysis changes the
\* suspicious set in memory or in storage or the persisted counters.
C8_AllowNoSideEffect ==
    [][AllowStep => /\ suspiciousDomains' = suspiciousDomains
                    /\ storage'.suspiciousDomains = storage.suspiciousDomains
                    /\ StatsOr(storage'.stats) = StatsOr(storage.stats)]_vars

\* C9: the reportPhishing listener leaves the reported hostname in the
\* in-memory set and in the persisted list, and every later analysis of a
\* URL with a reported hostname that is not whitelisted scores at least 80.
C9_ReportedScoresAtLeast80 ==
    [][/\ nReports' # nReports =>
             \A h \in reported' \ reported :
                 SetHas(suspiciousDomains', h) /\ SetHas(Persisted', h)
       /\ (/\ nAnalyses' # nAnalyses /\ ~lastCall'.threw
           /\ HostOf(lastCall'.url) \in reported
           /\ HostOf(lastCall'.url) \notin whitelistedDomains)
          => lastCall'.riskScore >= 80]_vars

\* The domains the popup's Trust Site button has stored.
Trusted ==
    IF IsSome(storage.whitelistedDomains) THEN Members(Val(storage.whitelistedDomains)) ELSE {}

\* C10: every analysis of a URL whose domain has been trusted in the popup
\* scores 0 and neither blocks nor warns.
C10_TrustedScoresZero ==
    [][(/\ nAnalyses' # nAnalyses /\ ~lastCall'.threw
        /\ ToLowerCase(HostOf(lastCall'.url)) \in Trusted)
       => /\ lastCall'.riskScore = 0
          /\ ~lastCall'.block /\ ~lastCall'.warn /\ lastCall'.alert = "none"]_vars

(***************************************************************************)
(* Properties of the reputation store and the statistics                   *)
(***************************************************************************)

\* The suspiciousDomains list an earlier session persisted, as the start-up
\* load reads it.
PersistedAtStartup == IF IsSome(loading.result) THEN Val(loading.result) ELSE <<>>

\* C11: every analysis of a hostname that an earlier session persisted as
\* suspicious (and that is not whitelisted) scores at least 80, from the
\* first navigation event on: no score is computed from a suspicious set the
\* start-up load has not filled yet.
C11_LoadBeforeScore ==
    [][(/\ nAnalyses' # nAnalyses /\ ~lastCall'.threw
        /\ SetHas(PersistedAtStartup, HostOf(lastCall'.url))
        /\ HostOf(lastCall'.url) \notin whitelistedDomains)
       => lastCall'.riskScore >= 80]_vars

\* The domains of the stored analysis records that were blocked.
BlockedOnRecord ==
    {Val(storage.analysis[t]).domain :
        t \in {u \in Tabs : /\ IsSome(storage.analysis[u])
                            /\ Val(storage.analysis[u]).riskScore > 60}}

\* C12: once nothing is pending, the in-memory set and the persisted list
\* have the same members, and these include every domain persisted at
\* start-up, every reported domain and every domain a stored record shows
\* as blocked.
C12_NoDomainLost ==
    Quiescent =>
        /\ Members(suspiciousDomains) = Members(Persisted)
        /\ Members(PersistedAtStartup) \subseteq Members(suspiciousDomains)
        /\ reported \subseteq Members(suspiciousDomains)
        /\ BlockedOnRecord \subseteq Members(suspiciousDomains)

\* The number of tabs whose stored analysis record has a score above a
\* threshold: each is the record of a different analysis.
RecordsAbove(threshold) ==
    Cardinality({t \in Tabs : /\ IsSome(storage.analysis[t])
                              /\ Val(storage.analysis[t]).riskScore > threshold})

\* C13: with no user reports, no step decreases a persisted counter, and once
\* all operations have completed no increment is lost: sitesBlocked counts
\* at least the analyses above 60 and threatsDetected and alertsShown at
\* least the analyses above 30 that the stored records show.
C13_StatsReadModifyWrite ==
    [][nReports' = 0 =>
          /\ StatsOr(storage'.stats).sitesBlocked >= StatsOr(storage.stats).sitesBlocked
          /\ StatsOr(storage'.stats).threatsDetected >= StatsOr(storage.stats).threatsDetected
          /\ StatsOr(storage'.stats).alertsShown >= StatsOr(storage.stats).alertsShown
          /\ tasks' = {} =>
                /\ StatsOr(storage'.stats).sitesBlocked >= RecordsAbove(60)'
                /\ StatsOr(storage'.stats).threatsDetected >= RecordsAbove(30)'
                /\ StatsOr(storage'.stats).alertsShown >= RecordsAbove(30)']_vars

C15_ParseFailureNoEffect ==
    [][/\ (nAnalyses' # nAnalyses /\ lastCall'.threw) =>
             /\ tasks' = tasks /\ badge' = badge
             /\ suspiciousDomains' = suspiciousDomains
             /\ storage' = storage
             /\ ~lastCall'.block /\ ~lastCall'.warn /\ lastCall'.alert = "none"
             /\ ~lastCall'.stats
       /\ (nAnalyses' # nAnalyses /\ ~lastCall'.threw) =>
             /\ IsSome(storage'.analysis[lastCall'.tabId])
             /\ Val(storage'.analysis[lastCall'.tabId]).url = lastCall'.url
             /\ Val(storage'.analysis[lastCall'.tabId]).timestamp = lastCall'.id]_vars

\* After a navigation whose URL failed to parse, which is still loading in
\* its tab, a navigation has been analysed and blocked.
C15_Witness ==
    /\ \E t \in Tabs : nav[t] = Some("http://")
    /\ lastCall.id = 2 /\ ~lastCall.threw /\ lastCall.block
    /\ IsSome(storage.analysis[lastCall.tabId])
    /\ badge[lastCall.tabId].text = "blocked"

\* The popup is opened or reloaded on a tab and shows something new.
PopupLoads ==
    /\ popup.pc = "idle" /\ popup'.pc = "idle"
    /\ popup'.open /\ popup' # popup

\* C16: when the last call of analyzeUrl was for the popup's tab and its URL
\* failed to parse, the popup loaded on that tab shows no analysis and the
\* "Unable to analyze" status, also after an earlier analysis in that tab.
C16_UnableToAnalyze ==
    [][(PopupLoads /\ lastCall.threw /\ lastCall.tabId = popup'.tabId) =>
          /\ popup'.currentAnalysis = None
          /\ popup'.status = NoAnalysisStatus]_vars

\* C17: a call of analyzeUrl with a URL that parses stores the record
\* {url, domain, riskScore, timestamp} of that call for its tab and leaves
\* the records of the other tabs unchanged; no other step changes a record,
\* so the stored record of a tab is that of its most recent analysis, and
\* null when there was none; getAnalysis answers the popup with the stored
\* record of the popup's tab.
C17_LatestRecordPerTab ==
    [][/\ (nAnalyses' # nAnalyses /\ ~lastCall'.threw) =>
             /\ storage'.analysis[lastCall'.tabId] =
                   Some([url       |-> lastCall'.url,
                         domain    |-> ToLowerCase(HostOf(lastCall'.url)),
                         riskScore |-> lastCall'.riskScore,
                         timestamp |-> nAnalyses'])
             /\ \A t \in Tabs \ {lastCall'.tabId} :
                   storage'.analysis[t] = storage.analysis[t]
       /\ (nAnalyses' = nAnalyses \/ lastCall'.threw) =>
             storage'.analysis = storage.analysis
       /\ (nAnalyses' = 0) => \A t \in Tabs : storage'.analysis[t] = None
       /\ PopupLoads => popup'.currentAnalysis = storage.analysis[popup'.tabId]]_vars

\* The popup shows the record of the second analysis of the behaviour while
\* the other tab has none.
C17_Witness ==
    /\ popup.open /\ IsSome(popup.currentAnalysis)
    /\ Val(popup.currentAnalysis).timestamp = 2
    /\ popup.currentAnalysis = storage.analysis[popup.tabId]
    /\ \E t \in Tabs \ {popup.tabId} : storage.analysis[t] = None

\* A continuation of showPhishingAlert, blockPhishingSite or warnUser: the
\* injection into the tab succeeded or failed.
InjectionStep ==
    \E t \in tasks \ tasks' :
        t.kind \in {"showPhishingAlert", "blockPhishingSite", "warnUser"}

\* A BLOCK analysis that started with nothing pending has completed on its
\* own and neither the alert dialog nor the block page is in its tab: both
\* injections failed.
SoloBlockNotInjected ==
    /\ solo.id # 0 /\ tasks = {} /\ lastCall.riskScore > 60
    /\ ~page[lastCall.tabId].blocked
    /\ page[lastCall.tabId].dialog = "none"

\* C18: no continuation of an injection, failed or not, changes the
\* suspicious set, anything in storage or the pending statistics update; and
\* when both injections of a BLOCK analysis have failed, the hostname is in
\* the suspicious set in memory and in storage, each counter is one more
\* than before and the record of the tab is that of the analysis.
C18_InjectionFailureNoRollback ==
    [][/\ InjectionStep =>
             /\ suspiciousDomains' = suspiciousDomains
             /\ storage' = storage
             /\ \A t \in tasks \ tasks' : t.kind # "updateDetectionStats"
       /\ SoloBlockNotInjected' =>
             /\ SetHas(suspiciousDomains', HostOf(lastCall'.url))
             /\ SetHas(Persisted', HostOf(lastCall'.url))
             /\ StatsOr(storage'.stats) =
                   [sitesBlocked    |-> solo'.before.sitesBlocked + 1,
                    threatsDetected |-> solo'.before.threatsDetected + 1,
                    alertsShown     |-> solo'.before.alertsShown + 1]
             /\ IsSome(storage'.analysis[lastCall'.tabId])
             /\ Val(storage'.analysis[lastCall'.tabId]).url = lastCall'.url
             /\ Val(storage'.analysis[lastCall'.tabId]).riskScore = lastCall'.riskScore]_vars

\* Both injections of a BLOCK analysis that ran on its own have failed.
C18_Witness ==
    /\ SoloBlockNotInjected
    /\ SetHas(Persisted, HostOf(lastCall.url))
    /\ StatsOr(storage.stats).sitesBlocked = 1

(***************************************************************************)
(* Properties of the documented behaviour                                  *)
(***************************************************************************)

\* C19: a call of analyzeUrl blocks exactly when the score is above 70,
\* warns exactly when the score is from 41 to 70 and does neither when the
\* score is 40 or less.
C19_DocumentedThresholds ==
    (lastCall.id # 0 /\ ~lastCall.threw) =>
        /\ lastCall.block <=> lastCall.riskScore > 70
        /\ lastCall.warn <=> (lastCall.riskScore > 40 /\ lastCall.riskScore <= 70)
        /\ lastCall.riskScore <= 40 => (~lastCall.block /\ ~lastCall.warn)

\* C20: every URL of a documented high-risk hostname, over http or https,
\* gets a score for which analyzeUrl calls blockPhishingSite.
C20_DocumentedHighRiskBlocked ==
    /\ scored.first.url \in DocumentedHighRiskUrls =>
           LevelOfAction(scored.first.riskScore) = "high"
    /\ scored.second.url \in DocumentedHighRiskUrls =>
           LevelOfAction(scored.second.riskScore) = "high"

(***************************************************************************)
(* Properties of analyzePatterns                                           *)
(***************************************************************************)

\* The URL of the specification's scoring example.
ExampleUrl == "http://paypa1-secure-login.tk/verify"

\* The phishing-language patterns that match the lowercased href of a URL.
MatchingPatterns(url) ==
    {k \in 1..Len(phishingPatterns) :
        RegexWordsTest(ToLowerCase(urlObjects[url].href), phishingPatterns[k])}

\* The score calculateRiskScore gives a URL when the pattern score is bonus,
\* with the hostname known as suspicious or not.
ScoreWithPatternBonus(url, bonus, known) ==
    LET a == Analysed[urlObjects[url].href]
    IN  IF a.domain \in whitelistedDomains THEN 0
        ELSE Min((IF known THEN 80 ELSE 0)
                 + a.domainScore + a.urlScore + bonus, 100)

\* Every scored URL got 20 for each pattern that matches its lowercased href.
TwentyPerMatchingPattern ==
    \A s \in {scored.first, scored.second} :
        s.url \in DOMAIN urlObjects =>
            /\ Analysed[urlObjects[s.url].href].patternScore
                   = 20 * Cardinality(MatchingPatterns(s.url))
            /\ \E known \in BOOLEAN :
                   s.riskScore = ScoreWithPatternBonus(s.url,
                       20 * Cardinality(MatchingPatterns(s.url)), known)

ScoringStep ==
    /\ nAnalyses' = nAnalyses
    /\ nReports' = nReports
    /\ loading' = loading
    /\ scored'.first.url \in DOMAIN urlObjects

BrandRules(domain) ==
    << [matches |-> BrandInSuspiciousContext(domain),    score |-> 50],
       [matches |-> detectPayPalImpersonation(domain),   score |-> 80],
       [matches |-> detectCharacterSubstitution(domain), score |-> 60] >>

\* The score of the first rule that matches, 0 when none does.
FirstMatchingRule(domain) ==
    LET rules == BrandRules(domain)
        hits  == {k \in 1..Len(rules) : rules[k].matches}
    IN  IF hits = {} THEN 0
        ELSE rules[CHOOSE k \in hits : \A j \in hits : k <= j].score

\* What analyzeDomain adds besides the brand score.
DomainScoreWithoutBrand(domain) ==
      (IF \E tld \in suspiciousTlds : EndsWith(domain, tld) THEN 30 ELSE 0)
    + (IF Len(domain) > 30 THEN 15 ELSE 0)
    + (IF SplitLength(domain, ".") - 2 > 3 THEN 20 ELSE 0)
    + (IF HasDigit(domain) /\ HasLetter(domain) THEN 10 ELSE 0)
    + (IF detectHomograph(domain) THEN 40 ELSE 0)

\* C28: checkBrandImpersonation returns one of 0, 50, 60, 80, the score of
\* the first rule that matches in the order brand in a foreign domain (50),
\* PayPal look-alike (80), leetspeak brand (60); a hostname matching the
\* first two rules gets 50; the domain score of every scored URL holds it.
C28_BrandFirstMatchWins ==
    \A s \in {scored.first, scored.second} :
        s.url \in DOMAIN urlObjects =>
            LET domain == ToLowerCase(HostOf(s.url))
                brand  == checkBrandImpersonation(domain)
            IN  /\ brand \in {0, 50, 60, 80}
                /\ brand = FirstMatchingRule(domain)
                /\ (BrandRules(domain)[1].matches /\ BrandRules(domain)[2].matches)
                       => brand = 50
                /\ Analysed[urlObjects[s.url].href].domainScore
                       = DomainScoreWithoutBrand(domain) + brand

\* A URL whose hostname matches the first and the second rule has been
\* scored 50, next to its http form.
C28_Witness ==
    /\ scored.second.url = "https://paypal-security.com/"
    /\ BrandRules(HostOf(scored.second.url))[1].matches
    /\ BrandRules(HostOf(scored.second.url))[2].matches
    /\ scored.second.riskScore = 50
    /\ suspiciousDomains = <<>>

(***************************************************************************)
(* Properties of the suspicious set over time                              *)
(***************************************************************************)

\* C29: no step removes a hostname from the suspicious set, and an analysis
\* of a URL whose hostname is not whitelisted and was reported or blocked
\* before scores at least 80 and calls blockPhishingSite.
C29_SuspiciousAbsorbing ==
    [][/\ Members(suspiciousDomains) \subseteq Members(suspiciousDomains')
       /\ (/\ nAnalyses' # nAnalyses
           /\ ~lastCall'.threw
           /\ HostOf(lastCall'.url) \in (reported \cup BlockedOnRecord)
           /\ HostOf(lastCall'.url) \notin whitelistedDomains)
          => (lastCall'.riskScore >= 80 /\ lastCall'.block)
      ]_vars

(***************************************************************************)
(* Properties of the counters per navigation                               *)
(***************************************************************************)

\* Exactly one navigation has been made, the browser has reported it with
\* onBeforeNavigate and with onUpdated, and nothing was reported by the user.
OneNavigationReportedTwice ==
    /\ nAnalyses = 2
    /\ \A t \in Tabs : nav[t] = None
    /\ nReports = 0

\* C30: one navigation, reported through both listeners, raises each of
\* sitesBlocked, threatsDetected and alertsShown by at most one.
C30_NavigationCountedOnce ==
    OneNavigationReportedTwice =>
        /\ StatsOr(storage.stats).sitesBlocked <= 1
        /\ StatsOr(storage.stats).threatsDetected <= 1
        /\ StatsOr(storage.stats).alertsShown <= 1

(***************************************************************************)
(* Properties of the content script                                        *)
(***************************************************************************)

\* window.phishingFlags as a sequence (no flag while it is undefined).
PhishingFlags ==
    IF IsSome(content.phishingFlags) THEN Val(content.phishingFlags) ELSE <<>>

\* C23: after every run of analyzePage window.phishingFlags holds exactly the
\* flags the latest run emitted, in the order it emitted them.
C23_FlagsResetOnReanalysis ==
    content.runs >= 1 => PhishingFlags = content.emitted

\* C24: mutation-observer callbacks that report inserted forms or links
\* within one window of 100 ms lead to one run of analyzePage: no two pending
\* timers are less than 100 ms apart.
C24_ReanalysisDebounced ==
    \A i, j \in 1..Len(content.timers) :
        i < j => content.timers[j] - content.timers[i] >= ReanalysisDelay

\* The elements that analyzeLinks and analyzeForms check.
LinksAndForms == {id \in ElementIds : Element(id).tagName \in {"A", "FORM"}}

\* The inserted links and forms that no run of analyzePage has covered yet.
InsertedUnchecked == (content.inserted \cap LinksAndForms) \ content.covered

\* C25: with the content script started at document_start, whenever a form
\* or link has been inserted after the initial load, eventually the link and
\* form checks have covered every inserted form and link, unless the
\* document is left before.
C25_InsertedEventuallyChecked ==
    (content.runAt = "document_start" /\ InsertedUnchecked # {})
        ~> (InsertedUnchecked = {} \/ content.pc = "unloaded")

\* The marks markSuspiciousElement has recorded for element id.
MarksOf(c, id) == SelectSeq(c.suspiciousElements, LAMBDA m : m.element = id)

\* C26: a click on a link the analyzer has flagged shows at least one prompt,
\* one for every time the link was marked, and the browser follows the link
\* exactly when the user confirmed every one of them; a click that is not
\* followed leaves the document in place.
C26_FlaggedLinkNeedsConfirmation ==
    [][content'.lastClick # content.lastClick =>
          LET click == content'.lastClick
          IN  MarksOf(content, click.element) # <<>> =>
                  /\ Len(click.answers) = Len(MarksOf(content, click.element))
                  /\ click.navigated <=> (\A k \in 1..Len(click.answers) : click.answers[k])
                  /\ click.navigated <=> content'.pc = "unloaded"
                  /\ ~click.navigated => content'.body = content.body
      ]_vars

\* A link flagged for two reasons and marked again by a re-analysis has
\* been clicked; the user confirmed the first prompts and declined a later
\* one, and the link was not followed.
C26_Witness ==
    /\ content.runs >= 2
    /\ Len(content.lastClick.answers) >= 4
    /\ content.lastClick.answers[1]
    /\ content.lastClick.answers[Len(content.lastClick.answers)]
    /\ \E k \in 1..Len(content.lastClick.answers) : ~content.lastClick.answers[k]
    /\ ~content.lastClick.navigated
    /\ content.pc = "running"

\* C27: a link the analyzer has checked is marked with "Misleading link
\* text" exactly when its visible text names a known brand and the hostname
\* of its target does not contain that brand.
C27_MisleadingByHostname ==
    \A id \in content.covered :
        Element(id).tagName = "A" =>
            ((\E k \in 1..Len(content.suspiciousElements) :
                  content.suspiciousElements[k] =
                      [element |-> id, reason |-> "Misleading link text"])
             <=> isMisleadingLinkByHostname(Element(id).textContent, Element(id).href))
=============================================================================
